---- MODULE Spec2Model ----
(***************************************************************************)
(* A model of the trading bot: the signal-driven position state machine    *)
(* of bitget_trade.py (TradingBot.trading_loop, TradingSignalProcessor)    *)
(* and the bill reconciliation of bitget_functions.py (BillAnalyzer).      *)
(*                                                                         *)
(* Text is modelled as sequences of one-character strings, so that the     *)
(* substring tests and the split of the code are computed, not assumed.    *)
(* Money is in integer cents, held quantities in 1/10000 of a coin.        *)
(***************************************************************************)
EXTENDS Integers, Sequences, FiniteSets, TLC

VARIABLES
    pc,           \* position of the trading_loop coroutine
    coins_json,   \* the persisted record coins.json
    market_info,  \* the list trading_loop read from coins.json for this tick
    remaining,    \* unseen e-mails of this tick not handled yet
    last,         \* what the handling of the latest e-mail did
    accepted,     \* per instrument: the side of the last accepted order, "" at first
    sizing,       \* inputs and result of the latest _calculate_trade_amount
    bills,        \* inputs and result of the latest reconciliation pass
    monthly,      \* input and result of the latest format_monthly_statistics
    tasks         \* the two tasks of TradingBot.start, statement by statement

vars == <<pc, coins_json, market_info, remaining, last, accepted, sizing, bills,
          monthly, tasks>>

tradeVars == <<pc, coins_json, market_info, remaining, last, accepted>>

-----------------------------------------------------------------------------
(* Bounds of the model *)

\* unseen e-mails one poll may return
MaxSignals == 2

\* entries in the buy ledger and in the sell ledger of a reconciliation
MaxBills == 2

\* distinct ledger timestamps
MaxTime == 3

\* closed trades in the list given to format_monthly_statistics
MaxTrades == 3

-----------------------------------------------------------------------------
(* Text *)

SP == <<" ">>

DELIM == <<" ", "@", " ">>

BUY == <<"b", "u", "y">>

SELL == <<"s", "e", "l", "l">>

BTC == <<"B", "T", "C">>

ETH == <<"E", "T", "H">>

XRP == <<"X", "R", "P">>

HOLD == <<"h", "o", "l", "d">>

\* Python's  sub in s
Contains(sub, s) ==
    \E i \in 1..(Len(s) - Len(sub) + 1) : SubSeq(s, i, i + Len(sub) - 1) = sub

\* index of the first occurrence of sub in s, 0 when there is none
FirstIndex(sub, s) ==
    IF Contains(sub, s)
    THEN CHOOSE i \in 1..(Len(s) - Len(sub) + 1) :
            /\ SubSeq(s, i, i + Len(sub) - 1) = sub
            /\ \A j \in 1..(i - 1) : SubSeq(s, j, j + Len(sub) - 1) # sub
    ELSE 0

\* Python's  s.split(d)
RECURSIVE Split(_, _)
Split(s, d) ==
    LET i == FirstIndex(d, s)
    IN  IF i = 0
        THEN <<s>>
        ELSE <<SubSeq(s, 1, i - 1)>> \o Split(SubSeq(s, i + Len(d), Len(s)), d)

-----------------------------------------------------------------------------
(* The e-mail bodies the mail collaborator may deliver *)

S1 == <<"S", "1">>

X == <<"x">>

\* the text before the first " @ ": an instrument symbol and a keyword
Heads ==
    { c \o SP \o k : c \in {BTC, ETH}, k \in {BUY, SELL} }
        \cup { XRP \o SP \o BUY, ETH \o SP \o HOLD }

\* the display label parts after the first " @ "
Tails ==
    { <<>>,
      DELIM \o S1,
      DELIM \o S1 \o DELIM \o X,
      DELIM \o SELL \o DELIM \o X,
      DELIM \o BTC \o DELIM \o X }

Bodies == { h \o t : h \in Heads, t \in Tails }

-----------------------------------------------------------------------------
(* Collaborators: what the venue, the files and the chat may answer *)

\* placeOrder: accepted, refused with an error code, or raising
VenueOutcomes == {"00000", "40000", "exception"}

\* placeOrder's answer, and whether write_json then succeeds (it is only
\* called after an accepted order)
OrderOutcomes ==
    { o \in [venue : VenueOutcomes, written : BOOLEAN] :
          o.venue # "00000" => o.written }

\* account_api.assets for a coin, in 1/10000 of a coin
AssetOutcomes ==
    { [kind |-> "ok", available |-> q] : q \in {0, 49, 12345} }
        \cup { [kind |-> "api_error", available |-> 0],
               [kind |-> "error", available |-> 0] }

\* account_api.assets for USDT, in cents, as the trading loop meets it
UsdtOutcomes ==
    { [kind |-> "ok", available |-> 2000],
      [kind |-> "api_error", available |-> 0] }

\* settings.json as the trading loop meets it
LoopSettings ==
    { [kind |-> "ok", useFixDeposit |-> FALSE, hasFix |-> TRUE, fixDeposit |-> 0],
      [kind |-> "ok", useFixDeposit |-> TRUE, hasFix |-> TRUE, fixDeposit |-> 1500],
      [kind |-> "error", useFixDeposit |-> FALSE, hasFix |-> FALSE, fixDeposit |-> 0] }

-----------------------------------------------------------------------------
(* Numbers *)

\* Python's round() of the rational num/den (den positive) to an integer:
\* to nearest, ties to even
RoundHalfEven(num, den) ==
    LET q == num \div den
        r == num % den
    IN  IF 2 * r < den THEN q
        ELSE IF 2 * r > den THEN q + 1
        ELSE IF q % 2 = 0 THEN q ELSE q + 1

Pow10(d) == CASE d = 0 -> 1 [] d = 1 -> 10 [] d = 2 -> 100 [] d = 3 -> 1000 [] OTHER -> 10000

\* round(q, decimals) of a quantity held in 1/10000
RoundQuantity(q, decimals) ==
    LET unit == Pow10(4 - decimals)
    IN  RoundHalfEven(q, unit) * unit

Max(a, b) == IF a >= b THEN a ELSE b

-----------------------------------------------------------------------------
(* OrderManager and AssetManager (bitget_functions.py) *)

\* execute_order with no except clause around placeOrder: only a refusal
\* gives the empty identifier
execute_order_uncaught(venue) == IF venue = "40000" THEN "" ELSE "id"

\* execute_order: the order identifier, "" when the venue refuses or the call raises
execute_order(venue) == IF venue = "00000" THEN "id" ELSE ""

\* get_asset_quantity: the available amount, the sentinel 0 on a
\* BitgetAPIException; any other exception leaves the function
get_asset_quantity(resp) ==
    [raised |-> resp.kind = "error",
     value  |-> IF resp.kind = "ok" THEN resp.available ELSE 0]

-----------------------------------------------------------------------------
(* PositionSizer: TradingSignalProcessor._calculate_trade_amount *)

\* the floor of the amount, 5.02 USDT in cents
MIN_AMOUNT == 502

\* the amount returned when anything raises, 7.0 USDT in cents
DEBUG_AMOUNT == 700

\* the share of the free balance that is split
COEF_PERCENT == 95

\* _calculate_trade_amount returning amount, not max(amount, 5.02)
_calculate_trade_amount_unfloored(info, settings, usdt) ==
    LET balance == get_asset_quantity(usdt)
    IN  IF settings.kind = "error" \/ balance.raised
        THEN DEBUG_AMOUNT
        ELSE IF settings.kind = "empty" \/ ~settings.useFixDeposit
        THEN LET coins_not_in_trade ==
                     Cardinality({ i \in DOMAIN info : ~info[i].in_trade })
             IN  RoundHalfEven(balance.value * COEF_PERCENT,
                               100 * Max(coins_not_in_trade, 1))
        ELSE IF ~settings.hasFix
        THEN DEBUG_AMOUNT
        ELSE settings.fixDeposit

\* settings: settings.json ("error": it cannot be read or is no mapping,
\* "empty": {}, hasFix: the key fixDeposit is there); usdt: the venue's
\* answer for the USDT balance
_calculate_trade_amount(info, settings, usdt) ==
    LET balance == get_asset_quantity(usdt)
    IN  IF settings.kind = "error" \/ balance.raised
        THEN DEBUG_AMOUNT
        ELSE IF settings.kind = "empty" \/ ~settings.useFixDeposit
        THEN LET coins_not_in_trade ==
                     Cardinality({ i \in DOMAIN info : ~info[i].in_trade })
                 amount == RoundHalfEven(balance.value * COEF_PERCENT,
                                         100 * Max(coins_not_in_trade, 1))
             IN  Max(amount, MIN_AMOUNT)
        ELSE IF ~settings.hasFix
        THEN DEBUG_AMOUNT
        ELSE Max(settings.fixDeposit, MIN_AMOUNT)

-----------------------------------------------------------------------------
(* BillAnalyzer (bitget_functions.py) *)

Abs(x) == IF x < 0 THEN -x ELSE x

RECURSIVE SumSeq(_)
SumSeq(s) == IF s = <<>> THEN 0 ELSE Head(s) + SumSeq(Tail(s))

\* Ledger timestamps count hours from 2025-01-01 00:00 local time, the
\* sizes of the USDT entries are cents, fees are cents.
DAY == 24

YEAR_DAYS == 365

BASE_YEAR == 2025

\* days of the (non-leap) year before the first of each month
MonthStarts == <<0, 31, 59, 90, 120, 151, 181, 212, 243, 273, 304, 334>>

\* int(datetime.fromtimestamp(ctime).strftime("%m")) and ("%Y")
MonthOf(ctime) ==
    Cardinality({ m \in 1..12 : MonthStarts[m] <= (ctime \div DAY) % YEAR_DAYS })

YearOf(ctime) == BASE_YEAR + (ctime \div DAY) \div YEAR_DAYS

\* the instrument and timestamp of one entry of the venue's ledger
Bill == [coin : {"BTC", "ETH"}, cTime : 1..MaxTime]

\* the ledgers get_account_bills may return, in any order
Ledgers == UNION { [1..n -> Bill] : n \in 0..MaxBills }

\* the entries of a ledger of one side as the venue reports them: each of
\* its own order, of one coin, with a fee of one USDT
Entries(side, ledger) ==
    [i \in DOMAIN ledger |->
        [coin |-> ledger[i].coin, cTime |-> ledger[i].cTime,
         bizOrderId |-> <<side, i>>, size |-> 10000, fees |-> 100]]

\* the USDT entries of the orders of a ledger, a hundred USDT each
UsdtLegs(entries) ==
    [i \in DOMAIN entries |->
        [coin |-> "USDT", size |-> -10000, bizOrderId |-> entries[i].bizOrderId]]

\* what the three account_api.bills calls of one pass may do
Categories == {"ORDER_DEALT_IN", "ORDER_DEALT_OUT", "USDT"}

Retrievals == {"ok", "api_error", "error"}

AllRetrieved == [c \in Categories |-> "ok"]

\* BillAnalyzer.get_account_bills: the data of the response; "" (nothing to
\* iterate) on BitgetAPIException; any other exception leaves the function
get_account_bills(retrieval, data) ==
    [raised |-> retrieval = "error",
     data   |-> IF retrieval = "ok" THEN data ELSE <<>>]

\* BillAnalyzer.process_bill: the TradeBill of a ledger entry
process_bill(asset, usdt_assets) ==
    LET leg(k) == /\ usdt_assets[k].coin = "USDT"
                  /\ usdt_assets[k].bizOrderId = asset.bizOrderId
    IN  [coin          |-> asset.coin,
         coin_quantity |-> Abs(asset.size),
         usdt_quantity |-> SumSeq([k \in DOMAIN usdt_assets |->
                                      IF leg(k) THEN Abs(usdt_assets[k].size) ELSE 0]),
         ctime         |-> asset.cTime,
         fees          |-> Abs(asset.fees)]

\* create_statistics with the fee left out of usdt_buy_quantity
create_statistics_no_fee(bill, sell_bill) ==
    LET closed == sell_bill # <<>>
        usdt_buy_quantity == bill.usdt_quantity
        usdt_sell_quantity == IF closed THEN sell_bill[1].usdt_quantity ELSE 0
        raised == closed /\ usdt_buy_quantity = 0
    IN  [month      |-> IF closed THEN MonthOf(sell_bill[1].ctime) ELSE 0,
         year       |-> IF closed THEN YearOf(sell_bill[1].ctime) ELSE 0,
         start_date |-> bill.ctime,
         end_date   |-> IF closed THEN sell_bill[1].ctime ELSE 0,
         duration   |-> IF closed
                        THEN (sell_bill[1].ctime - bill.ctime) \div DAY ELSE -1,
         coin       |-> bill.coin,
         coin_quantity |-> bill.coin_quantity,
         usdt_buy_quantity  |-> usdt_buy_quantity,
         usdt_sell_quantity |-> usdt_sell_quantity,
         income     |-> IF closed THEN usdt_sell_quantity - usdt_buy_quantity ELSE 0,
         income_percent |->
             IF closed /\ ~raised
             THEN RoundHalfEven((usdt_sell_quantity - usdt_buy_quantity) * 10000,
                                usdt_buy_quantity)
             ELSE 0,
         closed     |-> closed,
         raised     |-> raised]

\* BillAnalyzer.create_statistics; sell_bill is <<>> for None.  Amounts are
\* cents, income_percent hundredths of a percent; start_date and end_date
\* are the timestamps the formatted dates are made from; duration is -1
\* for the text of a trade in progress; raised is the ZeroDivisionError of
\* line 246, which leaves no TradeStatistics
create_statistics(bill, sell_bill) ==
    LET closed == sell_bill # <<>>
        usdt_buy_quantity == bill.usdt_quantity + bill.fees
        usdt_sell_quantity == IF closed THEN sell_bill[1].usdt_quantity ELSE 0
        raised == closed /\ usdt_buy_quantity = 0
    IN  [month      |-> IF closed THEN MonthOf(sell_bill[1].ctime) ELSE 0,
         year       |-> IF closed THEN YearOf(sell_bill[1].ctime) ELSE 0,
         start_date |-> bill.ctime,
         end_date   |-> IF closed THEN sell_bill[1].ctime ELSE 0,
         duration   |-> IF closed
                        THEN (sell_bill[1].ctime - bill.ctime) \div DAY ELSE -1,
         coin       |-> bill.coin,
         coin_quantity |-> bill.coin_quantity,
         usdt_buy_quantity  |-> usdt_buy_quantity,
         usdt_sell_quantity |-> usdt_sell_quantity,
         income     |-> IF closed THEN usdt_sell_quantity - usdt_buy_quantity ELSE 0,
         income_percent |->
             IF closed /\ ~raised
             THEN RoundHalfEven((usdt_sell_quantity - usdt_buy_quantity) * 10000,
                                usdt_buy_quantity)
             ELSE 0,
         closed     |-> closed,
         raised     |-> raised]

\* the search with sell.ctime >= buy_bill.ctime
matching_sell_ge(buy_bill, processed_sell_bills) ==
    LET ok(j) == /\ processed_sell_bills[j].coin = buy_bill.coin
                 /\ processed_sell_bills[j].ctime >= buy_bill.ctime
    IN  IF \E j \in DOMAIN processed_sell_bills : ok(j)
        THEN CHOOSE j \in DOMAIN processed_sell_bills :
                 ok(j) /\ \A k \in 1..(j - 1) : ~ok(k)
        ELSE 0

\* next(sell for sell in processed_sell_bills if ...): the position in the
\* sell list of the sell process_bills pairs with buy_bill, 0 for None
matching_sell(buy_bill, processed_sell_bills) ==
    LET ok(j) == /\ processed_sell_bills[j].coin = buy_bill.coin
                 /\ processed_sell_bills[j].ctime > buy_bill.ctime
    IN  IF \E j \in DOMAIN processed_sell_bills : ok(j)
        THEN CHOOSE j \in DOMAIN processed_sell_bills :
                 ok(j) /\ \A k \in 1..(j - 1) : ~ok(k)
        ELSE 0

\* the loop of process_bills over the processed buy bills, from position i:
\* acc.stats is the list stats, acc.coins_in_trade the dict (its keys are
\* the DOMAIN); buy and sell are the positions of the two bills a
\* statistics entry was built from; acc.raised is set when
\* create_statistics raised, which ends the loop and the pass
RECURSIVE pair_bills(_, _, _, _)
pair_bills(processed_buy_bills, processed_sell_bills, i, acc) ==
    IF i > Len(processed_buy_bills) \/ acc.raised
    THEN acc
    ELSE LET buy_bill == processed_buy_bills[i]
             j == matching_sell(buy_bill, processed_sell_bills)
             stat == create_statistics(buy_bill,
                         IF j = 0 THEN <<>> ELSE <<processed_sell_bills[j]>>)
             entry == [stat |-> stat, buy |-> i, sell |-> j]
         IN  pair_bills(processed_buy_bills, processed_sell_bills, i + 1,
                 IF stat.raised
                 THEN [acc EXCEPT !.raised = TRUE]
                 ELSE IF j # 0
                 THEN [acc EXCEPT !.stats = Append(@, entry)]
                 ELSE [acc EXCEPT !.coins_in_trade =
                          [c \in (DOMAIN @) \cup {buy_bill.coin} |->
                              IF c = buy_bill.coin THEN entry ELSE @[c]]])

EmptyResult == [stats |-> <<>>, coins_in_trade |-> <<>>, raised |-> FALSE]

\* lines 192-194 of process_bills: the three ledgers of the window
fetch_bills(retrieval, buy_data, sell_data, usdt_data) ==
    LET buy == get_account_bills(retrieval["ORDER_DEALT_IN"], buy_data)
        sell == get_account_bills(retrieval["ORDER_DEALT_OUT"], sell_data)
        usdt == get_account_bills(retrieval["USDT"], usdt_data)
    IN  [raised |-> buy.raised \/ sell.raised \/ usdt.raised,
         buy_bills |-> buy.data, sell_bills |-> sell.data,
         usdt_bills |-> usdt.data]

\* the list comprehensions of lines 197-204: the TradeBill of every entry
\* of a ledger, in the ledger's order
processed_bills(ledger, usdt_bills) ==
    LET F[i \in 0..Len(ledger)] ==
            IF i = 0 THEN <<>>
            ELSE Append(F[i - 1], process_bill(ledger[i], usdt_bills))
    IN  F[Len(ledger)]

\* lines 207-226 of process_bills on the lists lines 197-204 are written to
\* build: every buy bill paired with its matching sell
pair_ledgers(buy_bills, sell_bills, usdt_bills) ==
    pair_bills(processed_bills(buy_bills, usdt_bills),
               processed_bills(sell_bills, usdt_bills), 1, EmptyResult)

\* process_bills with lines 198 and 202 calling self.process_bill: the
\* statistics and the open positions, or raised
reconcile(retrieval, buy_data, sell_data, usdt_data) ==
    LET f == fetch_bills(retrieval, buy_data, sell_data, usdt_data)
        r == pair_ledgers(f.buy_bills, f.sell_bills, f.usdt_bills)
    IN  IF f.raised \/ r.raised
        THEN [raised |-> TRUE, result |-> EmptyResult]
        ELSE [raised |-> FALSE, result |-> r]

\* process_bills as it runs: lines 198 and 202 read self.bill_analyzer, an
\* attribute BillAnalyzer never sets (__init__ sets account_api only), so
\* the first entry of either ledger raises AttributeError; with both
\* ledgers empty the comprehensions evaluate nothing and the loop runs over
\* the empty list
process_bills(retrieval, buy_data, sell_data, usdt_data) ==
    LET f == fetch_bills(retrieval, buy_data, sell_data, usdt_data)
    IN  IF ~f.raised /\ f.buy_bills = <<>> /\ f.sell_bills = <<>>
        THEN [raised |-> FALSE,
              result |-> pair_ledgers(f.buy_bills, f.sell_bills, f.usdt_bills)]
        ELSE [raised |-> TRUE, result |-> EmptyResult]

Min(a, b) == IF a <= b THEN a ELSE b

\* the metrics dict at the start of a month
EmptyMetrics ==
    [income |-> 0, all_percent |-> 0, profit_count |-> 0, loss_count |-> 0,
     max_loss_percent |-> 0]

\* BillAnalyzer._update_metrics
_update_metrics(metrics, stat) ==
    LET summed == [metrics EXCEPT !.income = @ + stat.income,
                                  !.all_percent = @ + stat.income_percent]
    IN  IF stat.income_percent > 0
        THEN [summed EXCEPT !.profit_count = @ + 1]
        ELSE IF stat.income_percent < 0
        THEN [summed EXCEPT !.loss_count = @ + 1,
                            !.max_loss_percent = Min(@, stat.income_percent)]
        ELSE summed

\* BillAnalyzer._format_month_summary: the numbers of the text, percents in
\* hundredths of a percent
_format_month_summary(current_month, metrics) ==
    LET total_deals == metrics.profit_count + metrics.loss_count
    IN  [month            |-> current_month.month,
         year             |-> current_month.year,
         income           |-> metrics.income,
         all_percent      |-> metrics.all_percent,
         total_deals      |-> total_deals,
         profit_percent   |-> IF total_deals > 0
                              THEN RoundHalfEven(metrics.profit_count * 10000, total_deals)
                              ELSE 0,
         max_loss_percent |-> metrics.max_loss_percent,
         avg_percent      |-> IF total_deals > 0
                              THEN RoundHalfEven(metrics.all_percent, total_deals)
                              ELSE 0]

\* the loop body with the metrics carried over into the next month
format_step_no_reset(st, stats, i) ==
    LET stat == stats[i]
        changed == st.current_month.month # stat.month
        flushed == IF changed /\ st.current_month.month # 0
                   THEN [st EXCEPT
                            !.result = Append(@,
                                [summary |-> _format_month_summary(st.current_month,
                                                                   st.metrics),
                                 group |-> st.group]),
                            !.group = {}]
                   ELSE st
        moved == IF changed
                 THEN [flushed EXCEPT
                          !.current_month = [month |-> stat.month, year |-> stat.year]]
                 ELSE flushed
    IN  [moved EXCEPT !.metrics = _update_metrics(@, stat), !.group = @ \cup {i}]

\* lines 261-271 of format_monthly_statistics, for the statistics at
\* position i: st.result is the list of summaries appended to the text,
\* st.group the positions of the statistics the running metrics are made of
format_step(st, stats, i) ==
    LET stat == stats[i]
        changed == st.current_month.month # stat.month
        flushed == IF changed /\ st.current_month.month # 0
                   THEN [st EXCEPT
                            !.result = Append(@,
                                [summary |-> _format_month_summary(st.current_month,
                                                                   st.metrics),
                                 group |-> st.group]),
                            !.metrics = EmptyMetrics,
                            !.group = {}]
                   ELSE st
        moved == IF changed
                 THEN [flushed EXCEPT
                          !.current_month = [month |-> stat.month, year |-> stat.year]]
                 ELSE flushed
    IN  [moved EXCEPT !.metrics = _update_metrics(@, stat), !.group = @ \cup {i}]

\* BillAnalyzer.format_monthly_statistics: the summaries of the text, <<>>
\* for the text without any
format_monthly_statistics(stats) ==
    LET F[i \in 0..Len(stats)] ==
            IF i = 0
            THEN [current_month |-> [month |-> 0, year |-> 0],
                  metrics |-> EmptyMetrics, result |-> <<>>, group |-> {}]
            ELSE format_step(F[i - 1], stats, i)
        st == F[Len(stats)]
    IN  IF stats = <<>>
        THEN <<>>
        ELSE IF st.current_month.month # 0
        THEN Append(st.result,
                    [summary |-> _format_month_summary(st.current_month, st.metrics),
                     group |-> st.group])
        ELSE st.result

-----------------------------------------------------------------------------
(* The trading loop: TradingBot.trading_loop and TradingSignalProcessor *)

\* coins.json at the first start: no instrument in a trade
CoinsFile ==
    << [coin |-> BTC, in_trade |-> FALSE, decimals |-> 4],
       [coin |-> ETH, in_trade |-> FALSE, decimals |-> 2] >>

NoStep ==
    [body |-> <<>>, idx |-> 0, action |-> "none", branch |-> "none",
     orders |-> <<>>, venue |-> "", order_id |-> "", wrote |-> FALSE,
     notify |-> "none"]

\* EmailMonitor.get_trading_signals keeps a body with "buy" or "sell" in it
IsSignal(email_body) == Contains(BUY, email_body) \/ Contains(SELL, email_body)

\* the search in the text before the first " @ " only
_find_coin_info_head(message, info) ==
    LET head == Split(message, DELIM)[1]
        hit(i) == Contains(info[i].coin, head)
    IN  IF \E i \in DOMAIN info : hit(i)
        THEN CHOOSE i \in DOMAIN info : hit(i) /\ \A k \in 1..(i - 1) : ~hit(k)
        ELSE 0

\* _find_coin_info: the position of the first configured instrument whose
\* symbol is in the message, 0 for None
_find_coin_info(message, info) ==
    LET hit(i) == Contains(info[i].coin, message)
    IN  IF \E i \in DOMAIN info : hit(i)
        THEN CHOOSE i \in DOMAIN info : hit(i) /\ \A k \in 1..(i - 1) : ~hit(k)
        ELSE 0

\* the branch process_trading_signal takes: which handler it calls
SignalAction(message, info) ==
    IF _find_coin_info(message, info) = 0 THEN "none"
    ELSE IF Contains(SELL, message) THEN "sell"
    ELSE IF Contains(BUY, message) THEN "buy"
    ELSE "none"

\* the side of the last accepted order of an instrument
Accept(i, side) == [accepted EXCEPT ![i] = side]

\* a return of the handler before any order: nothing but the step record changes
Return(message, i, action, branch) ==
    /\ last' = [NoStep EXCEPT !.body = message, !.idx = i, !.action = action,
                              !.branch = branch]
    /\ pc' = "loop"
    /\ UNCHANGED <<coins_json, market_info, accepted>>

\* _prepare_sell_quantity: [none, value]
_prepare_sell_quantity(coin_info, resp) ==
    LET quantity == get_asset_quantity(resp)
    IN  IF quantity.raised
        THEN [none |-> TRUE, value |-> 0]
        ELSE [none |-> FALSE,
              value |-> RoundQuantity(quantity.value, coin_info.decimals)]

\* the guard of _handle_sell_signal and of _handle_buy_signal on the flag
SellGuard(coin_info) == coin_info.in_trade

\* _handle_buy_signal without its test of the flag
BuyGuardOpen(coin_info) == TRUE

BuyGuard(coin_info) == ~coin_info.in_trade

\* whether a notification follows the order: success of _execute_*_order
\* a return of True as soon as the venue gives an order identifier
SuccessAlways(order_id, written) == order_id # ""

Success(order_id, written) == order_id # "" /\ written

\* the flag set on every element of the list
SetInTradeAll(info, i, value) ==
    [k \in DOMAIN info |-> [info[k] EXCEPT !.in_trade = value]]

\* coin_info["in_trade"] = value, coin_info being element i of the list
SetInTrade(info, i, value) == [info EXCEPT ![i].in_trade = value]

\* _execute_sell_order / _execute_buy_order, then the handler's tail: the
\* order goes to the venue; on an order identifier the flag is set in the
\* list and the list is written (written = FALSE: write_json raises and the
\* file stays as it was)
ExecuteOrder(message, i, side, size, venue, written, notifies) ==
    LET order_id == execute_order(venue)
        flipped == SetInTrade(market_info, i, side = "buy")
        did_write == order_id # "" /\ written
        success == Success(order_id, written)
    IN  /\ market_info' = IF order_id # "" THEN flipped ELSE market_info
        /\ coins_json' = IF did_write THEN flipped ELSE coins_json
        /\ accepted' = IF order_id # "" THEN Accept(i, side) ELSE accepted
        /\ last' = [body |-> message, idx |-> i, action |-> side,
                    branch |-> "order",
                    orders |-> << [coin |-> market_info[i].coin, side |-> side,
                                   size |-> size] >>,
                    venue |-> venue, order_id |-> order_id, wrote |-> did_write,
                    notify |-> IF success /\ notifies THEN "pending" ELSE "none"]
        /\ pc' = IF success /\ notifies THEN "notify_" \o side ELSE "loop"

_handle_sell_signal(message, i, signal_parts) ==
    IF ~SellGuard(market_info[i])
    THEN Return(message, i, "sell", "guard")
    ELSE \E resp \in AssetOutcomes :
            LET quantity == _prepare_sell_quantity(market_info[i], resp)
            IN  IF quantity.none \/ quantity.value = 0
                THEN Return(message, i, "sell", "no_quantity")
                ELSE \E o \in OrderOutcomes :
                        ExecuteOrder(message, i, "sell", quantity.value, o.venue,
                                     o.written, Len(signal_parts) = 3)

_handle_buy_signal(message, i) ==
    IF ~BuyGuard(market_info[i])
    THEN Return(message, i, "buy", "guard")
    ELSE \E settings \in LoopSettings, usdt \in UsdtOutcomes :
            LET trade_amount == _calculate_trade_amount(market_info, settings, usdt)
            IN  IF trade_amount = 0
                THEN Return(message, i, "buy", "no_amount")
                ELSE \E o \in OrderOutcomes :
                        ExecuteOrder(message, i, "buy", trade_amount, o.venue,
                                     o.written, TRUE)

process_trading_signal(message) ==
    LET i == _find_coin_info(message, market_info)
    IN  IF i = 0
        THEN Return(message, 0, "none", "no_coin")
        ELSE LET signal_parts == Split(message, DELIM)
             IN  IF Contains(SELL, message)
                 THEN _handle_sell_signal(message, i, signal_parts)
                 ELSE IF Contains(BUY, message)
                 THEN _handle_buy_signal(message, i)
                 ELSE Return(message, i, "none", "no_keyword")

\* the top of the while loop: read coins.json, poll the mailbox
Tick ==
    /\ pc = "sleep"
    /\ market_info' = coins_json
    /\ \E n \in 0..MaxSignals : remaining' = n
    /\ pc' = "loop"
    /\ UNCHANGED <<coins_json, last, accepted, sizing, bills, monthly, tasks>>

\* one unseen e-mail: kept by the monitor or not, then process_trading_signal
\* up to its first suspension
HandleEmail ==
    /\ pc = "loop"
    /\ remaining > 0
    /\ remaining' = remaining - 1
    /\ \E email_body \in Bodies :
          IF IsSignal(email_body)
          THEN process_trading_signal(email_body)
          ELSE Return(email_body, 0, "none", "dropped")
    /\ UNCHANGED <<sizing, bills, monthly, tasks>>

\* _send_buy_notification: the message is sent, or send_message raises and
\* the error is printed
SendBuyNotification ==
    /\ pc = "notify_buy"
    /\ \E sent \in BOOLEAN :
          last' = [last EXCEPT !.notify = IF sent THEN "sent" ELSE "failed"]
    /\ pc' = "loop"
    /\ UNCHANGED <<coins_json, market_info, remaining, accepted, sizing, bills, monthly, tasks>>

\* _send_sell_notification: process_bills(10) raises and the error is
\* printed, or it returns no statistics and nothing is sent (statistics
\* would raise as well: stat["coin"] subscripts a dataclass)
SendSellNotification ==
    /\ pc = "notify_sell"
    /\ \E buy_bills, sell_bills \in { l \in Ledgers : Len(l) <= 1 } :
          LET buys == Entries("buy", buy_bills)
              sells == Entries("sell", sell_bills)
              r == process_bills(AllRetrieved, buys, sells,
                                 UsdtLegs(buys) \o UsdtLegs(sells))
          IN  last' = [last EXCEPT !.notify =
                          IF r.raised \/ r.result.stats # <<>>
                          THEN "failed" ELSE "nothing"]
    /\ pc' = "loop"
    /\ UNCHANGED <<coins_json, market_info, remaining, accepted, sizing, bills, monthly, tasks>>

\* asyncio.sleep(300) once the tick's messages are done
Sleep ==
    /\ pc = "loop"
    /\ remaining = 0
    /\ pc' = "sleep"
    /\ UNCHANGED <<coins_json, market_info, remaining, last, accepted, sizing, bills, monthly, tasks>>

NoSizing == [settings |-> <<>>, usdt |-> <<>>, info |-> <<>>, amount |-> 0, done |-> FALSE]

NoBills == [retrieval |-> AllRetrieved, buy_bills |-> <<>>, sell_bills |-> <<>>,
            usdt_bills |-> <<>>, done |-> "no", raised |-> FALSE,
            result |-> EmptyResult]

NoMonthly == [stats |-> <<>>, done |-> FALSE, report |-> <<>>, reply |-> "none"]

NoTasks == [running |-> "loop", loop |-> "read_json", polling |-> "wait",
            polled |-> <<>>, idx |-> 0, in_trade |-> FALSE, persisted |-> FALSE]

Init ==
    /\ pc = "sleep"
    /\ coins_json = CoinsFile
    /\ market_info = CoinsFile
    /\ remaining = 0
    /\ last = NoStep
    /\ accepted = [i \in DOMAIN CoinsFile |-> ""]
    /\ sizing = NoSizing
    /\ monthly = NoMonthly
    /\ tasks = NoTasks
    /\ bills = NoBills

Next ==
    \/ Tick
    \/ HandleEmail
    \/ SendBuyNotification
    \/ SendSellNotification
    \/ Sleep

Spec == Init /\ [][Next]_vars

-----------------------------------------------------------------------------
(* The position sizer on its own: every input, then one call *)

\* the largest free USDT balance, in cents
MaxBalance == 1200

\* fixDeposit values of settings.json, in cents
FixDeposits == {-100, 0, 501, 502, 503, 2000}

AllSettings ==
    { [kind |-> "error", useFixDeposit |-> FALSE, hasFix |-> FALSE, fixDeposit |-> 0],
      [kind |-> "empty", useFixDeposit |-> FALSE, hasFix |-> FALSE, fixDeposit |-> 0],
      [kind |-> "ok", useFixDeposit |-> TRUE, hasFix |-> FALSE, fixDeposit |-> 0],
      [kind |-> "ok", useFixDeposit |-> FALSE, hasFix |-> FALSE, fixDeposit |-> 0] }
        \cup { [kind |-> "ok", useFixDeposit |-> u, hasFix |-> TRUE, fixDeposit |-> f] :
                  u \in BOOLEAN, f \in FixDeposits }

AllUsdt ==
    { [kind |-> "ok", available |-> b] : b \in 0..MaxBalance }
        \cup { [kind |-> "api_error", available |-> 0],
               [kind |-> "error", available |-> 0] }

\* coins.json with every combination of flags
AllInfos ==
    { [i \in DOMAIN CoinsFile |-> [CoinsFile[i] EXCEPT !.in_trade = f[i]]] :
          f \in [DOMAIN CoinsFile -> BOOLEAN] }

InitSizer ==
    /\ pc = "sleep"
    /\ coins_json = CoinsFile
    /\ market_info = CoinsFile
    /\ remaining = 0
    /\ last = NoStep
    /\ accepted = [i \in DOMAIN CoinsFile |-> ""]
    /\ bills = NoBills
    /\ monthly = NoMonthly
    /\ tasks = NoTasks
    /\ \E settings \in AllSettings, usdt \in AllUsdt, info \in AllInfos :
          sizing = [settings |-> settings, usdt |-> usdt, info |-> info,
                    amount |-> 0, done |-> FALSE]

CalculateTradeAmount ==
    /\ ~sizing.done
    /\ sizing' = [sizing EXCEPT
                     !.amount = _calculate_trade_amount(sizing.info, sizing.settings,
                                                        sizing.usdt),
                     !.done = TRUE]
    /\ UNCHANGED <<tradeVars, bills, monthly, tasks>>

NextSizer == CalculateTradeAmount

SpecSizer == InitSizer /\ [][NextSizer]_vars

-----------------------------------------------------------------------------
(* The pairing on its own: every pair of ledgers, then one pass.  The USDT *)
(* ledger is empty here, so that the cost basis of a buy is its fee; the   *)
(* amounts are the subject of the specification further down.              *)

InitBills ==
    /\ pc = "sleep"
    /\ coins_json = CoinsFile
    /\ market_info = CoinsFile
    /\ remaining = 0
    /\ last = NoStep
    /\ accepted = [i \in DOMAIN CoinsFile |-> ""]
    /\ sizing = NoSizing
    /\ monthly = NoMonthly
    /\ tasks = NoTasks
    /\ \E buy_bills \in Ledgers, sell_bills \in Ledgers :
          bills = [NoBills EXCEPT !.buy_bills = Entries("buy", buy_bills),
                                  !.sell_bills = Entries("sell", sell_bills)]

\* the pairing loop of process_bills on the processed ledgers
Reconcile ==
    /\ bills.done = "no"
    /\ LET r == reconcile(bills.retrieval, bills.buy_bills, bills.sell_bills,
                          bills.usdt_bills)
       IN  bills' = [bills EXCEPT !.done = "paired", !.raised = r.raised,
                                  !.result = r.result]
    /\ UNCHANGED <<tradeVars, sizing, monthly, tasks>>

\* a call of process_bills as the command handlers make it
ProcessBills ==
    /\ bills.done = "no"
    /\ LET r == process_bills(bills.retrieval, bills.buy_bills, bills.sell_bills,
                              bills.usdt_bills)
       IN  bills' = [bills EXCEPT !.done = "called", !.raised = r.raised,
                                  !.result = r.result]
    /\ UNCHANGED <<tradeVars, sizing, monthly, tasks>>

NextBills == Reconcile \/ ProcessBills

SpecBills == InitBills /\ [][NextBills]_vars

-----------------------------------------------------------------------------
(* The reconciliation with amounts: ledgers drawn from a book of orders,   *)
(* each retrieval succeeding or failing, then one pass                     *)

\* buy entries of the book: a hundred USDT of BTC with a fee of one USDT,
\* ETH bought without a fee whose USDT entry the venue does not report,
\* BTC bought in two fills with a fee of half a USDT
BuyBook ==
    { [coin |-> "BTC", cTime |-> 10,  bizOrderId |-> "b1", size |-> 10000, fees |-> -100],
      [coin |-> "ETH", cTime |-> 12,  bizOrderId |-> "b2", size |-> 20000, fees |-> 0],
      [coin |-> "BTC", cTime |-> 800, bizOrderId |-> "b3", size |-> 5000,  fees |-> -50] }

\* sell entries of the book: BTC three days and five hours after b1, ETH
\* the day after b2, BTC in February
SellBook ==
    { [coin |-> "BTC", cTime |-> 87,  bizOrderId |-> "s1", size |-> -10000, fees |-> 0],
      [coin |-> "ETH", cTime |-> 40,  bizOrderId |-> "s2", size |-> -20000, fees |-> 0],
      [coin |-> "BTC", cTime |-> 900, bizOrderId |-> "s3", size |-> -5000,  fees |-> 0] }

\* the USDT ledger of the book; an entry of another coin under the order
\* id of b1 stands for what the filter on the coin drops
UsdtBook ==
    << [coin |-> "USDT", size |-> -10000, bizOrderId |-> "b1"],
       [coin |-> "BTC",  size |-> 10000,  bizOrderId |-> "b1"],
       [coin |-> "USDT", size |-> -3000,  bizOrderId |-> "b3"],
       [coin |-> "USDT", size |-> -2000,  bizOrderId |-> "b3"],
       [coin |-> "USDT", size |-> 11000,  bizOrderId |-> "s1"],
       [coin |-> "USDT", size |-> 4000,   bizOrderId |-> "s2"],
       [coin |-> "USDT", size |-> 4900,   bizOrderId |-> "s3"] >>

\* the ledgers of at most MaxBills entries of a book, in any order
BookLedgers(book) ==
    { l \in UNION { [1..n -> book] : n \in 0..MaxBills } :
        \A i, j \in DOMAIN l : i # j => l[i] # l[j] }

InitLedger ==
    /\ pc = "sleep"
    /\ coins_json = CoinsFile
    /\ market_info = CoinsFile
    /\ remaining = 0
    /\ last = NoStep
    /\ accepted = [i \in DOMAIN CoinsFile |-> ""]
    /\ sizing = NoSizing
    /\ monthly = NoMonthly
    /\ tasks = NoTasks
    /\ \E retrieval \in [Categories -> Retrievals],
          buy_bills \in BookLedgers(BuyBook), sell_bills \in BookLedgers(SellBook) :
          bills = [NoBills EXCEPT !.retrieval = retrieval,
                                  !.buy_bills = buy_bills,
                                  !.sell_bills = sell_bills,
                                  !.usdt_bills = UsdtBook]

SpecLedger == InitLedger /\ [][NextBills]_vars

-----------------------------------------------------------------------------
(* The /mstat command: ledgers drawn from a book of three round trips,     *)
(* each retrieval succeeding or failing, then the handler                  *)

\* buy entries of the month book: ETH and BTC bought on the first of
\* January, ETH bought again on the fifth
MonthBuyBook ==
    { [coin |-> "ETH", cTime |-> 10,  bizOrderId |-> "x1", size |-> 20000, fees |-> -100],
      [coin |-> "BTC", cTime |-> 12,  bizOrderId |-> "x2", size |-> 10000, fees |-> -100],
      [coin |-> "ETH", cTime |-> 100, bizOrderId |-> "x3", size |-> 20000, fees |-> -100] }

\* sell entries of the month book: ETH on the second of January, BTC in
\* February, ETH on the ninth of January
MonthSellBook ==
    { [coin |-> "ETH", cTime |-> 40,  bizOrderId |-> "y1", size |-> -20000, fees |-> 0],
      [coin |-> "BTC", cTime |-> 900, bizOrderId |-> "y2", size |-> -10000, fees |-> 0],
      [coin |-> "ETH", cTime |-> 200, bizOrderId |-> "y3", size |-> -20000, fees |-> 0] }

\* the USDT ledger of the month book
MonthUsdtBook ==
    << [coin |-> "USDT", size |-> -4000,  bizOrderId |-> "x1"],
       [coin |-> "USDT", size |-> -10000, bizOrderId |-> "x2"],
       [coin |-> "USDT", size |-> -4000,  bizOrderId |-> "x3"],
       [coin |-> "USDT", size |-> 4100,   bizOrderId |-> "y1"],
       [coin |-> "USDT", size |-> 11000,  bizOrderId |-> "y2"],
       [coin |-> "USDT", size |-> 3900,   bizOrderId |-> "y3"] >>

\* the ledgers of at most MaxTrades entries of a book, in any order
MonthLedgers(book) ==
    { l \in UNION { [1..n -> book] : n \in 0..MaxTrades } :
        \A i, j \in DOMAIN l : i # j => l[i] # l[j] }

\* the handler of /mstat after the call of process_bills gave r: the error
\* reply when the call raised, the reply without data when the list is
\* empty, else the list handed as it came to format_monthly_statistics
send_monthly_statistics(r) ==
    IF r.raised
    THEN [NoMonthly EXCEPT !.done = TRUE, !.reply = "error"]
    ELSE IF r.result.stats = <<>>
    THEN [NoMonthly EXCEPT !.done = TRUE, !.reply = "no_data"]
    ELSE LET stats == [k \in DOMAIN r.result.stats |-> r.result.stats[k].stat]
         IN  [stats |-> stats, done |-> TRUE,
              report |-> format_monthly_statistics(stats), reply |-> "report"]

InitMstat ==
    /\ pc = "sleep"
    /\ coins_json = CoinsFile
    /\ market_info = CoinsFile
    /\ remaining = 0
    /\ last = NoStep
    /\ accepted = [i \in DOMAIN CoinsFile |-> ""]
    /\ sizing = NoSizing
    /\ monthly = NoMonthly
    /\ tasks = NoTasks
    /\ \E retrieval \in [Categories -> Retrievals],
          buy_bills \in MonthLedgers(MonthBuyBook),
          sell_bills \in MonthLedgers(MonthSellBook) :
          bills = [NoBills EXCEPT !.retrieval = retrieval,
                                  !.buy_bills = buy_bills,
                                  !.sell_bills = sell_bills,
                                  !.usdt_bills = MonthUsdtBook]

\* /mstat as it runs
SendMonthlyStatistics ==
    /\ bills.done = "no"
    /\ LET r == process_bills(bills.retrieval, bills.buy_bills, bills.sell_bills,
                              bills.usdt_bills)
       IN  /\ bills' = [bills EXCEPT !.done = "called", !.raised = r.raised,
                                     !.result = r.result]
           /\ monthly' = send_monthly_statistics(r)
    /\ UNCHANGED <<tradeVars, sizing, tasks>>

\* /mstat with the pairing loop of process_bills on the processed ledgers
SendMonthlyStatisticsPaired ==
    /\ bills.done = "no"
    /\ LET r == reconcile(bills.retrieval, bills.buy_bills, bills.sell_bills,
                          bills.usdt_bills)
       IN  /\ bills' = [bills EXCEPT !.done = "paired", !.raised = r.raised,
                                     !.result = r.result]
           /\ monthly' = send_monthly_statistics(r)
    /\ UNCHANGED <<tradeVars, sizing, tasks>>

NextMstat == SendMonthlyStatistics \/ SendMonthlyStatisticsPaired

SpecMstat == InitMstat /\ [][NextMstat]_vars

-----------------------------------------------------------------------------
(* The monthly report on its own: every list of closed trades, then the    *)
(* summaries format_monthly_statistics makes of it                         *)

Months == {1, 2}

Years == {2024, 2025}

\* profit and profit percent of a closed trade: two losses, break-even, a gain
TradeOutcomes ==
    { [income |-> -1000, income_percent |-> -990],
      [income |-> -100,  income_percent |-> -99],
      [income |-> 0,     income_percent |-> 0],
      [income |-> 900,   income_percent |-> 891] }

\* the fields of a closed TradeStatistics the report reads
ClosedStats ==
    { [month |-> m, year |-> y, income |-> o.income,
       income_percent |-> o.income_percent] :
          m \in Months, y \in Years, o \in TradeOutcomes }

InitMonthly ==
    /\ pc = "sleep"
    /\ coins_json = CoinsFile
    /\ market_info = CoinsFile
    /\ remaining = 0
    /\ last = NoStep
    /\ accepted = [i \in DOMAIN CoinsFile |-> ""]
    /\ sizing = NoSizing
    /\ bills = NoBills
    /\ tasks = NoTasks
    /\ \E stats \in UNION { [1..n -> ClosedStats] : n \in 0..MaxTrades } :
          monthly = [NoMonthly EXCEPT !.stats = stats]

FormatMonthly ==
    /\ ~monthly.done
    /\ monthly' = [monthly EXCEPT !.done = TRUE,
                                  !.report = format_monthly_statistics(monthly.stats)]
    /\ UNCHANGED <<tradeVars, sizing, bills, tasks>>

NextMonthly == FormatMonthly

SpecMonthly == InitMonthly /\ [][NextMonthly]_vars

-----------------------------------------------------------------------------
(* TradingBot.start: the trading loop and the polling of commands as two   *)
(* cooperative tasks of one event loop, statement by statement, for one    *)
(* instrument.  A task keeps the event loop until a statement suspends it. *)

\* the statements as if the order call were an awaited request as well
SuspendsAtOrders(step) == step \in {"notify", "sleep", "submit"}

\* the statements of the trading loop that give the event loop away:
\* await bot.send_message and await asyncio.sleep.  get_trading_signals,
\* process_trading_signal and the handlers of a signal are awaited too, but
\* their bodies run on synchronously: imaplib, the venue's client and
\* ConfigManager block, they do not await
Suspends(step) == step \in {"notify", "sleep"}

\* the side of the signal being handled
Side == tasks.polled[tasks.idx]

\* one statement of the trading loop task
LoopDoes(step, updated) ==
    /\ tasks.running = "loop"
    /\ tasks.loop = step
    /\ \E r \in (IF Suspends(step) THEN {"loop", "polling"} ELSE {"loop"}) :
          tasks' = [updated EXCEPT !.running = r]
    /\ UNCHANGED <<tradeVars, sizing, bills, monthly>>

\* market_info = self.config.read_json()
LoopReadJson ==
    LoopDoes("read_json", [tasks EXCEPT !.loop = "poll", !.in_trade = tasks.persisted])

\* messages = await self.email_monitor.get_trading_signals()
LoopPoll ==
    \E messages \in UNION { [1..n -> {"buy", "sell"}] : n \in 0..MaxSignals } :
        LoopDoes("poll", [tasks EXCEPT !.loop = "next", !.polled = messages, !.idx = 0])

\* for msg in messages: the next message, or the end of the tick
LoopNext ==
    LoopDoes("next",
             IF tasks.idx < Len(tasks.polled)
             THEN [tasks EXCEPT !.idx = @ + 1, !.loop = "read_flag"]
             ELSE [tasks EXCEPT !.loop = "sleep"])

\* the test of coin_info["in_trade"] in _handle_buy_signal and
\* _handle_sell_signal
LoopReadFlag ==
    LoopDoes("read_flag",
             IF (Side = "buy") = tasks.in_trade
             THEN [tasks EXCEPT !.loop = "next"]
             ELSE [tasks EXCEPT !.loop = "read_quantity"])

\* _calculate_trade_amount, which always gives an amount, or
\* _prepare_sell_quantity, which may give none
LoopReadQuantity ==
    \E got \in BOOLEAN :
        LoopDoes("read_quantity",
                 IF got \/ Side = "buy"
                 THEN [tasks EXCEPT !.loop = "submit"]
                 ELSE [tasks EXCEPT !.loop = "next"])

\* order_manager.buy / order_manager.sell
LoopSubmit ==
    \E order_id \in BOOLEAN :
        LoopDoes("submit",
                 IF order_id
                 THEN [tasks EXCEPT !.loop = "set_flag"]
                 ELSE [tasks EXCEPT !.loop = "next"])

\* coin_info["in_trade"] = True / False
LoopSetFlag ==
    LoopDoes("set_flag", [tasks EXCEPT !.loop = "write", !.in_trade = (Side = "buy")])

\* self.config.write_json(market_info), which may raise
LoopWriteJson ==
    \E written \in BOOLEAN :
        LoopDoes("write",
                 IF written
                 THEN [tasks EXCEPT !.loop = "notify", !.persisted = tasks.in_trade]
                 ELSE [tasks EXCEPT !.loop = "next"])

\* await self.bot.send_message(...) of the notification
LoopNotify == LoopDoes("notify", [tasks EXCEPT !.loop = "next"])

\* await asyncio.sleep(300)
LoopSleep == LoopDoes("sleep", [tasks EXCEPT !.loop = "read_json"])

\* one statement of the polling task; each of them awaits the network
PollingDoes(from, to, runs) ==
    /\ tasks.running = "polling"
    /\ tasks.polling = from
    /\ \E r \in runs : tasks' = [tasks EXCEPT !.polling = to, !.running = r]
    /\ UNCHANGED <<tradeVars, sizing, bills, monthly>>

\* a command arrives: its handler runs up to await self.bot.reply_to
PollingCommand == PollingDoes("wait", "reply", {"loop", "polling"})

\* the reply is sent and the handler ends
PollingReply == PollingDoes("reply", "wait", {"loop", "polling"})

\* no command: infinity_polling waits for updates
PollingWait == PollingDoes("wait", "wait", {"loop"})

InitTasks ==
    /\ pc = "sleep"
    /\ coins_json = CoinsFile
    /\ market_info = CoinsFile
    /\ remaining = 0
    /\ last = NoStep
    /\ accepted = [i \in DOMAIN CoinsFile |-> ""]
    /\ sizing = NoSizing
    /\ bills = NoBills
    /\ monthly = NoMonthly
    /\ tasks = NoTasks

NextTasks ==
    \/ LoopReadJson
    \/ LoopPoll
    \/ LoopNext
    \/ LoopReadFlag
    \/ LoopReadQuantity
    \/ LoopSubmit
    \/ LoopSetFlag
    \/ LoopWriteJson
    \/ LoopNotify
    \/ LoopSleep
    \/ PollingCommand
    \/ PollingReply
    \/ PollingWait

SpecTasks == InitTasks /\ [][NextTasks]_vars

-----------------------------------------------------------------------------
(* Properties of the signal state machine *)

\* the step is the handling of one e-mail (only HandleEmail counts down)
Handled == remaining' = remaining - 1

\* C1: a signal that takes the buy branch while the selected instrument's
\* in_trade flag is true, and one that takes the sell branch while it is
\* false, submits no order and leaves the list in memory and coins.json
\* as they are.
C1_GuardedSignalSubmitsNothing ==
    [][ (/\ Handled
         /\ last'.idx # 0
         /\ \/ last'.action = "buy" /\ market_info[last'.idx].in_trade
            \/ last'.action = "sell" /\ ~market_info[last'.idx].in_trade)
        => /\ last'.orders = <<>>
           /\ market_info' = market_info
           /\ coins_json' = coins_json ]_vars

\* a buy signal met an instrument in a trade and returned at the guard
C1_Witness ==
    /\ last.branch = "guard"
    /\ last.action = "buy"
    /\ market_info[last.idx].in_trade

\* C2 (as claimed): the accepted orders of an instrument alternate, the
\* first being a buy: an accepted order is never of the side of the
\* instrument's previous accepted order.
C2_AcceptedOrdersAlternate ==
    [][ (Handled /\ last'.order_id # "")
        => /\ accepted[last'.idx] # last'.action
           /\ accepted[last'.idx] = "" => last'.action = "buy" ]_vars

\* C3: when the venue refuses the order or the submission raises, the flag
\* in memory and coins.json are unchanged, no notification follows, and
\* that one order is the only one submitted for the signal, which is used up.
C3_RejectedOrderChangesNothing ==
    [][ (Handled /\ last'.branch = "order" /\ last'.venue # "00000")
        => /\ market_info' = market_info
           /\ coins_json' = coins_json
           /\ accepted' = accepted
           /\ ~last'.wrote
           /\ last'.notify = "none"
           /\ pc' = "loop"
           /\ Len(last'.orders) = 1 ]_vars

\* a submission that raised was handled
C3_Witness ==
    /\ last.branch = "order"
    /\ last.venue = "exception"
    /\ last.order_id = ""
    /\ pc = "loop"

\* C19 (as claimed): a sell signal handled for an instrument whose flag is
\* true submits one market sell, the held quantity being zero or rounding
\* to zero included, and when the venue accepts it the flag is false in
\* memory and in coins.json.
C19_SellInTradeSubmitsAndClears ==
    [][ (/\ Handled
         /\ last'.action = "sell"
         /\ last'.idx # 0
         /\ market_info[last'.idx].in_trade)
        => /\ Len(last'.orders) = 1
           /\ last'.orders[1].side = "sell"
           /\ last'.order_id # "" =>
                 /\ ~market_info'[last'.idx].in_trade
                 /\ ~coins_json'[last'.idx].in_trade ]_vars

\* C21 (as claimed): once a signal is handled, every instrument's flag in
\* the list in memory equals its flag in coins.json, and both tell the side
\* of the instrument's last accepted order, a failed write included.
C21_MemoryAndRecordAgree ==
    \A i \in DOMAIN coins_json :
        /\ market_info[i].in_trade = coins_json[i].in_trade
        /\ coins_json[i].in_trade = (accepted[i] = "buy")

-----------------------------------------------------------------------------
(* Properties of the two tasks *)

\* the statements of a transition after the test of the flag, up to and
\* including the write of coins.json
Window == {"read_quantity", "submit", "set_flag", "write"}

\* C18: the signals of a tick are taken one at a time in poll order, and
\* from the read of the flag to the write of coins.json the loop is not
\* suspended: in between no command handler takes a step and no other
\* signal is begun.
C18_TransitionRunsUnsuspended ==
    [][ /\ tasks.loop \in Window =>
              /\ tasks'.polling = tasks.polling
              /\ tasks'.running = "loop"
              /\ tasks'.idx = tasks.idx
              /\ tasks'.polled = tasks.polled
        /\ tasks'.idx # tasks.idx =>
              \/ tasks'.idx = 0 /\ tasks.loop = "poll"
              \/ /\ tasks'.idx = tasks.idx + 1
                 /\ tasks.loop = "next"
                 /\ tasks'.polled = tasks.polled ]_vars

\* a command handler is waiting for its reply while the loop task, whose
\* first signal of two was accepted and written, waits for its notification
C18_Witness ==
    /\ tasks.running = "polling"
    /\ tasks.polling = "reply"
    /\ tasks.loop = "next"
    /\ tasks.idx = 1
    /\ Len(tasks.polled) = 2
    /\ tasks.in_trade
    /\ tasks.persisted

-----------------------------------------------------------------------------
(* Properties of the reconciliation *)

Stats == bills.result.stats

C5_SellIsLaterAndSameInstrument ==
    bills.done # "no" =>
        \A a \in DOMAIN Stats :
            LET buy == bills.buy_bills[Stats[a].buy]
                sell == bills.sell_bills[Stats[a].sell]
            IN  /\ sell.coin = buy.coin
                /\ sell.cTime > buy.cTime
                /\ Stats[a].stat.closed
                /\ Stats[a].stat.end_date > Stats[a].stat.start_date

\* a buy was paired although the sell ledger holds, before the paired sell,
\* a sell of its instrument at the buy's own timestamp
C5_Witness ==
    /\ bills.done = "paired"
    /\ \E a \in DOMAIN Stats :
          \E j \in 1..(Stats[a].sell - 1) :
              /\ bills.sell_bills[j].coin = bills.buy_bills[Stats[a].buy].coin
              /\ bills.sell_bills[j].cTime = bills.buy_bills[Stats[a].buy].cTime

InTrade == bills.result.coins_in_trade

\* the ledgers the pass worked on
Fetched ==
    fetch_bills(bills.retrieval, bills.buy_bills, bills.sell_bills, bills.usdt_bills)

\* the buy at position i has a sell of its instrument at a later timestamp
HasLaterSell(i) ==
    \E j \in DOMAIN bills.sell_bills :
        /\ bills.sell_bills[j].coin = bills.buy_bills[i].coin
        /\ bills.sell_bills[j].cTime > bills.buy_bills[i].cTime

InStats(i) == \E a \in DOMAIN Stats : Stats[a].buy = i

InOpen(i) ==
    /\ bills.buy_bills[i].coin \in DOMAIN InTrade
    /\ InTrade[bills.buy_bills[i].coin].buy = i

C14_FailedRetrievalGivesEmptyWindow ==
    (bills.done # "no" /\ \E c \in Categories : bills.retrieval[c] # "ok") =>
        /\ ~bills.raised
        /\ Stats = <<>>
        /\ DOMAIN InTrade = {}

\* the cost basis of the buy at position i of the fetched buy ledger
CostBasis(i) ==
    LET bill == process_bill(Fetched.buy_bills[i], Fetched.usdt_bills)
    IN  bill.usdt_quantity + bill.fees

\* C16 (as claimed): a matched buy whose cost basis is zero does not abort
\* the pass, which still returns the closed trades of all other matched buys.
C16_ZeroCostBasisNeverAborts ==
    (/\ bills.done # "no"
     /\ bills.retrieval = AllRetrieved
     /\ \E i \in DOMAIN bills.buy_bills : HasLaterSell(i) /\ CostBasis(i) = 0) =>
        /\ ~bills.raised
        /\ \A i \in DOMAIN bills.buy_bills :
               (HasLaterSell(i) /\ CostBasis(i) # 0) => InStats(i)

\* C17: in every closed trade the cost basis is the buy's quote amount plus
\* its fee, the proceeds are the sell's quote amount, the profit is their
\* exact difference in cents, the profit percent is profit / cost basis *
\* 100 to the nearest hundredth, and the duration is the number of whole
\* days from the buy to the sell.
C17_ClosedTradeArithmetic ==
    bills.done # "no" =>
        \A a \in DOMAIN Stats :
            LET buy == Fetched.buy_bills[Stats[a].buy]
                sell == Fetched.sell_bills[Stats[a].sell]
                quote(e) == process_bill(e, Fetched.usdt_bills).usdt_quantity
                t == Stats[a].stat
            IN  /\ t.usdt_buy_quantity = quote(buy) + Abs(buy.fees)
                /\ t.usdt_sell_quantity = quote(sell)
                /\ t.income = t.usdt_sell_quantity - t.usdt_buy_quantity
                /\ 2 * Abs(t.income_percent * t.usdt_buy_quantity - t.income * 10000)
                       <= t.usdt_buy_quantity
                /\ t.duration * DAY <= sell.cTime - buy.cTime
                /\ sell.cTime - buy.cTime < (t.duration + 1) * DAY

\* the trade of the example: 100 USDT and a fee of 1 USDT in, 110 USDT out
\* three days later gives 101, 110, 9, 8.91 % and 3 days
C17_Witness ==
    /\ bills.done = "paired"
    /\ \E a \in DOMAIN Stats :
          /\ Stats[a].stat.usdt_buy_quantity = 10100
          /\ Stats[a].stat.usdt_sell_quantity = 11000
          /\ Stats[a].stat.income = 900
          /\ Stats[a].stat.income_percent = 891
          /\ Stats[a].stat.duration = 3

-----------------------------------------------------------------------------
(* Properties of the monthly report *)

Report == monthly.report

\* the list is ordered by close time as far as the report can tell: by year,
\* then by month
OrderedByCloseTime ==
    \A i, j \in DOMAIN monthly.stats :
        i < j => \/ monthly.stats[i].year < monthly.stats[j].year
                 \/ /\ monthly.stats[i].year = monthly.stats[j].year
                    /\ monthly.stats[i].month <= monthly.stats[j].month

\* the positions i and j of the list went into one summary
SameSummary(i, j) == \E k \in DOMAIN Report : {i, j} \subseteq Report[k].group

\* the profit percents and the profits of the list, by position
Percents == [i \in DOMAIN monthly.stats |-> monthly.stats[i].income_percent]

Incomes == [i \in DOMAIN monthly.stats |-> monthly.stats[i].income]

\* the sum of the values at the positions of a group
SumOver(group, values) ==
    SumSeq([i \in DOMAIN values |-> IF i \in group THEN values[i] ELSE 0])

\* x is num / den rounded to the nearest integer
Nearest(x, num, den) == 2 * Abs(x * den - num) <= den

\* C11 (as claimed): of a list ordered by close time, two adjacent trades go
\* into the same summary exactly when their month and their year are equal.
C11_GroupedByMonthAndYear ==
    (monthly.done /\ OrderedByCloseTime) =>
        \A i \in DOMAIN monthly.stats :
            i < Len(monthly.stats) =>
                (SameSummary(i, i + 1) <=>
                    /\ monthly.stats[i].month = monthly.stats[i + 1].month
                    /\ monthly.stats[i].year = monthly.stats[i + 1].year)

\* C12: every trade of the list is in exactly one summary, and in every
\* summary the net profit percent is the plain sum of the profit percents
\* and the net profit the sum of the profits of the trades of its group,
\* nothing carried over from the group before.
C12_SumsOfTheGroup ==
    monthly.done =>
        /\ \A i \in DOMAIN monthly.stats :
               \E k \in DOMAIN Report :
                   /\ i \in Report[k].group
                   /\ \A l \in DOMAIN Report : i \in Report[l].group => l = k
        /\ \A k \in DOMAIN Report :
               /\ Report[k].summary.all_percent =
                      SumOver(Report[k].group, Percents)
               /\ Report[k].summary.income =
                      SumOver(Report[k].group, Incomes)

\* a report of two summaries, the first of a gain and the second of a loss
C12_Witness ==
    /\ monthly.done
    /\ Len(Report) = 2
    /\ Report[1].summary.income > 0
    /\ Report[2].summary.income < 0
    /\ Report[2].summary.all_percent < 0

\* C20 (as claimed): in every summary the number of closed trades is the
\* size of the group, the win rate is profitable trades / all trades of the
\* group * 100, the average return is the sum of the profit percents / all
\* trades of the group, and the worst loss is the least profit percent of
\* the losing trades, 0 without any.
C20_CountsAllTradesOfTheGroup ==
    monthly.done =>
        \A k \in DOMAIN Report :
            LET group == Report[k].group
                all == Cardinality(group)
                profitable == Cardinality({ i \in group :
                                              monthly.stats[i].income_percent > 0 })
                losing == { i \in group : monthly.stats[i].income_percent < 0 }
                sum == SumOver(group, Percents)
            IN  /\ Report[k].summary.total_deals = all
                /\ Nearest(Report[k].summary.profit_percent, profitable * 10000, all)
                /\ Nearest(Report[k].summary.avg_percent, sum, all)
                /\ \A i \in losing :
                       Report[k].summary.max_loss_percent
                           <= monthly.stats[i].income_percent
                /\ \/ /\ losing = {}
                      /\ Report[k].summary.max_loss_percent = 0
                   \/ \E i \in losing :
                          Report[k].summary.max_loss_percent
                              = monthly.stats[i].income_percent

-----------------------------------------------------------------------------
(* Properties of the position sizer *)

\* C7: _calculate_trade_amount never returns less than 5.02 USDT, under
\* either policy, for every balance and on the fallback path.
C7_AmountAtLeastMinimum == sizing.done => sizing.amount >= MIN_AMOUNT

\* the balance split of a zero balance was lifted to the floor
C7_Witness ==
    /\ sizing.done
    /\ sizing.settings.kind = "ok"
    /\ ~sizing.settings.useFixDeposit
    /\ sizing.usdt.kind = "ok"
    /\ sizing.usdt.available = 0
    /\ sizing.amount = MIN_AMOUNT

\* C15 (as claimed): whenever the settings cannot be read or the balance
\* cannot be retrieved, the balance reported as 0.0 by the asset manager
\* included, _calculate_trade_amount returns the fallback of 7.0 USDT.
C15_FailureGivesFallback ==
    (sizing.done /\ (sizing.settings.kind = "error" \/ sizing.usdt.kind # "ok"))
        => sizing.amount = DEBUG_AMOUNT

\* the amount of the balance split before the floor:
\* round(balance * 0.95 / max(1, instruments not in trade), 2)
SplitAmount ==
    RoundHalfEven(get_asset_quantity(sizing.usdt).value * COEF_PERCENT,
                  100 * Max(Cardinality({ i \in DOMAIN sizing.info :
                                            ~sizing.info[i].in_trade }), 1))

\* the balance split applies and the balance was read
SplitPolicy ==
    /\ sizing.done
    /\ sizing.settings.kind # "error"
    /\ sizing.settings.kind = "empty" \/ ~sizing.settings.useFixDeposit
    /\ sizing.usdt.kind = "ok"

\* C23 (as claimed): under the balance split the amount is the split of the
\* balance read and never exceeds that balance, balances below 5.02 USDT
\* included.
C23_SplitNeverExceedsBalance ==
    SplitPolicy =>
        /\ sizing.amount = SplitAmount
        /\ sizing.amount <= sizing.usdt.available

\* C23: under the balance split the amount is the greater of the split of
\* the balance read and 5.02 USDT; it does not exceed the balance whenever
\* the split reaches 5.02 USDT.
C23_SplitFlooredAtMinimum ==
    SplitPolicy =>
        /\ sizing.amount = Max(SplitAmount, MIN_AMOUNT)
        /\ SplitAmount >= MIN_AMOUNT => sizing.amount <= sizing.usdt.available

\* a balance of 5.00 USDT, split over one instrument, gave 5.02 USDT
C23_Witness ==
    /\ SplitPolicy
    /\ sizing.usdt.available = 500
    /\ SplitAmount = 475
    /\ sizing.amount = MIN_AMOUNT

-----------------------------------------------------------------------------
(* Properties of the notification and of the parsing of a signal *)

\* C8: whenever a notification for an order is pending, sent or failed,
\* the order was accepted and the flipped flag is already in coins.json;
\* after a failed notification the flag in memory and the one in
\* coins.json both keep the flipped value.
C8_PersistedBeforeNotification ==
    last.notify # "none" =>
        /\ last.order_id # ""
        /\ last.wrote
        /\ coins_json[last.idx].in_trade = (last.action = "buy")
        /\ market_info[last.idx].in_trade = (last.action = "buy")

\* the notification of an accepted, persisted sell failed
C8_Witness ==
    /\ last.notify = "failed"
    /\ last.action = "sell"
    /\ last.wrote
    /\ ~coins_json[last.idx].in_trade

\* the decision process_trading_signal takes for a message
Decision(message, info) ==
    LET action == SignalAction(message, info)
    IN  [action |-> action,
         idx |-> IF action = "none" THEN 0 ELSE _find_coin_info(message, info)]

LastDecision ==
    [action |-> last.action, idx |-> IF last.action = "none" THEN 0 ELSE last.idx]

\* the keywords and configured symbols that occur somewhere in a body
Occurrences ==
    [b \in Bodies |->
        { t \in {BUY, SELL} \cup { CoinsFile[i].coin : i \in DOMAIN CoinsFile } :
              Contains(t, b) }]

\* the text of a body before its first " @ "
HeadOfBody == [b \in Bodies |-> Split(b, DELIM)[1]]

\* C9 (as claimed): the text after the first " @ " never influences the
\* decision: every message with the head of the handled one selects the
\* instrument and the action the handled one did.
C9_LabelNeverInfluencesDecision ==
    last.branch # "none" =>
        \A b \in Bodies :
            HeadOfBody[b] = HeadOfBody[last.body]
                => Decision(b, market_info) = LastDecision

\* C9 (amended): the decision depends only on which keywords and which
\* configured symbols occur anywhere in the whole message, label parts
\* included: every message with the occurrences of the handled one selects
\* the instrument and the action the handled one did.
C9_DecisionFromWholeMessage ==
    last.branch # "none" =>
        \A b \in Bodies :
            Occurrences[b] = Occurrences[last.body]
                => Decision(b, market_info) = LastDecision

\* a message whose head says buy was handled as a sell of the instrument
\* of its head, on the word "sell" in its label
C9_Witness ==
    /\ last.branch = "order"
    /\ last.action = "sell"
    /\ Contains(BUY, HeadOfBody[last.body])
    /\ ~Contains(SELL, HeadOfBody[last.body])
    /\ Contains(market_info[last.idx].coin, HeadOfBody[last.body])

\* C10: the handling of one e-mail changes the in_trade flag in memory of
\* no instrument but the selected one (the first configured instrument
\* whose symbol is in the message), changes no decimals and no symbol, and
\* writes to coins.json nothing but the list in memory; a message with no
\* configured symbol or with neither keyword submits no order, writes
\* nothing and changes no state.
C10_OnlySelectedInstrumentChanges ==
    [][ Handled =>
        /\ \A k \in DOMAIN market_info :
              /\ k # last'.idx => market_info'[k] = market_info[k]
              /\ market_info'[k].decimals = market_info[k].decimals
              /\ market_info'[k].coin = market_info[k].coin
        /\ DOMAIN market_info' = DOMAIN market_info
        /\ coins_json' \in {coins_json, market_info'}
        /\ last'.idx # 0 =>
              /\ market_info[last'.idx].coin \in Occurrences[last'.body]
              /\ \A k \in 1..(last'.idx - 1) :
                    market_info[k].coin \notin Occurrences[last'.body]
        /\ (\/ \A k \in DOMAIN market_info :
                  market_info[k].coin \notin Occurrences[last'.body]
            \/ BUY \notin Occurrences[last'.body]
                   /\ SELL \notin Occurrences[last'.body])
           => /\ last'.orders = <<>>
              /\ ~last'.wrote
              /\ UNCHANGED <<market_info, coins_json, accepted>>
              /\ pc' = "loop" ]_vars

\* an accepted order flipped the selected instrument while the other
\* instrument was in a trade, and stayed so
C10_Witness ==
    /\ last.branch = "order"
    /\ last.order_id # ""
    /\ \E k \in DOMAIN market_info :
          /\ k # last.idx
          /\ market_info[k].in_trade
          /\ ~market_info[last.idx].in_trade

====
